---- MODULE Spec2Model ----
(***************************************************************************)
(* compare_excel_files of app.py as a state machine.  One invocation is    *)
(* one behaviour: the sheet selection, then one step per selected sheet    *)
(* pair, then the return.  Strings are sequences of characters so that     *)
(* str.strip, str.lower and sorted are computed, not assumed.              *)
(***************************************************************************)
EXTENDS Integers, Sequences, FiniteSets, TLC

\* ------------------------------------------------------------- bounds
MaxSheets == 3
MaxCols == 2
MaxRows == 2

\* ------------------------------------------------------------ strings
\* The characters the model's strings are made of, in code-point order.
Alphabet ==
  <<" ", "1", "2", "A", "B", "C", "D", "I", "N", "S", "X",
    "a", "b", "c", "d", "e", "h", "i", "m", "n", "o", "s", "t", "u", "x">>

Ord(c) == CHOOSE i \in 1..Len(Alphabet) : Alphabet[i] = c

Range(s) == {s[i] : i \in DOMAIN s}

\* str.lower on one character.
LowerChar(c) ==
  CASE c = "A" -> "a"
    [] c = "B" -> "b"
    [] c = "C" -> "c"
    [] c = "D" -> "d"
    [] c = "I" -> "i"
    [] c = "N" -> "n"
    [] c = "S" -> "s"
    [] c = "X" -> "x"
    [] OTHER -> c

\* A slip: the fold forgotten.
lower_asis(s) == s

\* str.lower
lower(s) == [i \in DOMAIN s |-> LowerChar(s[i])]

RECURSIVE lstrip(_)
lstrip(s) == IF s # <<>> /\ Head(s) = " " THEN lstrip(Tail(s)) ELSE s

RECURSIVE rstrip(_)
rstrip(s) ==
  IF s # <<>> /\ s[Len(s)] = " " THEN rstrip(SubSeq(s, 1, Len(s) - 1)) ELSE s

strip(s) == rstrip(lstrip(s))

\* Python's order on str: lexicographic by code point, a prefix first.
RECURSIVE StrLess(_, _)
StrLess(s, t) ==
  IF s = <<>> THEN t # <<>>
  ELSE IF t = <<>> THEN FALSE
  ELSE IF Head(s) = Head(t) THEN StrLess(Tail(s), Tail(t))
  ELSE Ord(Head(s)) < Ord(Head(t))

\* sorted(list(S)) for a set S of strings.
RECURSIVE sorted(_)
sorted(S) ==
  IF S = {} THEN <<>>
  ELSE LET m == CHOOSE x \in S : \A y \in S \ {x} : StrLess(x, y)
       IN <<m>> \o sorted(S \ {m})

\* ----------------------------------------------------------- DataFrame
\* A missing cell.
NaN == "NaN"

\* A sheet as read by pd.read_excel: columns are the raw headers (pandas
\* keeps them distinct), rows are sequences of cells in column order.
ColIndex(df, name) == CHOOSE i \in 1..Len(df.columns) : df.columns[i] = name

\* df[names] raises KeyError unless every name is a raw header of df.
HasCols(df, names) == \A i \in DOMAIN names : names[i] \in Range(df.columns)

\* df[names]
Project(df, names) ==
  [columns |-> names,
   rows |-> [r \in DOMAIN df.rows |->
               [j \in DOMAIN names |-> df.rows[r][ColIndex(df, names[j])]]]]

\* df[name]
Column(df, name) == [r \in DOMAIN df.rows |-> df.rows[r][ColIndex(df, name)]]

\* Series.duplicated().any(); missing values count as equal to one another.
duplicated_any(s) == \E i, j \in DOMAIN s : i < j /\ s[i] = s[j]

RemoveAt(s, i) == SubSeq(s, 1, i - 1) \o SubSeq(s, i + 1, Len(s))

\* A frame with its row labels: index is the set of labels, at[k] the row.
\* The default index of a frame read from a sheet is 0 .. n-1.
RangeIndexed(df) ==
  [columns |-> df.columns,
   index |-> 0..(Len(df.rows) - 1),
   at |-> [k \in 0..(Len(df.rows) - 1) |-> df.rows[k + 1]]]

\* df.set_index(name): the column becomes the row labels and leaves the data.
set_index(df, name) ==
  LET i == ColIndex(df, name)
      keys == {df.rows[r][i] : r \in DOMAIN df.rows}
      RowOf(k) == df.rows[CHOOSE r \in DOMAIN df.rows : df.rows[r][i] = k]
  IN [columns |-> RemoveAt(df.columns, i),
      index |-> keys,
      at |-> [k \in keys |-> RemoveAt(RowOf(k), i)]]

\* One side of a.align(b, join='outer', axis=0): a reindexed on the union of
\* the two indexes, the labels a lacks filled with missing cells.
Reindex(f, keys) ==
  [columns |-> f.columns,
   index |-> keys,
   at |-> [k \in keys |->
             IF k \in f.index THEN f.at[k]
             ELSE [j \in DOMAIN f.columns |-> NaN]]]

\* Cell equality of DataFrame.compare: (a == b) | (a.isna() & b.isna()).
CellSame(a, b) == (a # NaN /\ b # NaN /\ a = b) \/ (a = NaN /\ b = NaN)

\* a.compare(b): the differing cells, <<label, column, self, other>>.
compare(a, b) ==
  LET places == {p \in a.index \X DOMAIN a.columns :
                   ~CellSame(a.at[p[1]][p[2]], b.at[p[1]][p[2]])}
  IN {<<p[1], a.columns[p[2]], a.at[p[1]][p[2]], b.at[p[1]][p[2]]>> :
        p \in places}

\* f.isnull().all(axis=1): the labels whose cells are all missing.
isnull_all(f) == {k \in f.index : \A j \in DOMAIN f.columns : f.at[k][j] = NaN}

\* f[mask]
Rows(f, keys) ==
  [columns |-> f.columns, index |-> keys, at |-> [k \in keys |-> f.at[k]]]

\* DataFrame.empty: an axis of length 0.
empty(f) == f.index = {} \/ f.columns = <<>>

\* ------------------------------------------------------ sheet selector
\* A workbook is the sequence of its sheets, [name, df], in on-disk order.
sheet_names(file) == [i \in DOMAIN file |-> file[i].name]

\* pd.read_excel(excel, sheet_name=name)
read_excel(file, name) ==
  file[CHOOSE i \in DOMAIN file : file[i].name = name].df

\* A slip: the extra sheets taken as a sorted set difference, as in name mode.
PositionSummary_bydiff(ref_sheets_list, comp_sheets_list) ==
  [mode |-> "position",
   comparison_pair |-> <<ref_sheets_list[1], comp_sheets_list[1]>>,
   only_in_ref |-> sorted(Range(ref_sheets_list) \ Range(comp_sheets_list)),
   only_in_comp |-> sorted(Range(comp_sheets_list) \ Range(ref_sheets_list))]

\* compare_by_position with a sheet on both sides: first against first.
PositionSummary(ref_sheets_list, comp_sheets_list) ==
  [mode |-> "position",
   comparison_pair |-> <<ref_sheets_list[1], comp_sheets_list[1]>>,
   only_in_ref |-> Tail(ref_sheets_list),
   only_in_comp |-> Tail(comp_sheets_list)]

\* A slip: the reference's sheets reported without taking the common ones out.
NameSummary_nodiff(ref_sheets_list, comp_sheets_list) ==
  LET ref_sheets_set == Range(ref_sheets_list)
      comp_sheets_set == Range(comp_sheets_list)
  IN [mode |-> "name",
      common |-> sorted(ref_sheets_set \cap comp_sheets_set),
      only_in_ref |-> sorted(ref_sheets_set),
      only_in_comp |-> sorted(comp_sheets_set \ ref_sheets_set)]

\* The name-based comparison.
NameSummary(ref_sheets_list, comp_sheets_list) ==
  LET ref_sheets_set == Range(ref_sheets_list)
      comp_sheets_set == Range(comp_sheets_list)
  IN [mode |-> "name",
      common |-> sorted(ref_sheets_set \cap comp_sheets_set),
      only_in_ref |-> sorted(ref_sheets_set \ comp_sheets_set),
      only_in_comp |-> sorted(comp_sheets_set \ ref_sheets_set)]

PairsOf(sheet_summary) ==
  IF sheet_summary.mode = "position"
  THEN <<sheet_summary.comparison_pair>>
  ELSE [i \in DOMAIN sheet_summary.common |->
          <<sheet_summary.common[i], sheet_summary.common[i]>>]

\* --------------------------------------------------- column headers
cols_clean(df) == [i \in DOMAIN df.columns |-> strip(df.columns[i])]

\* The identity a header is matched by.
ColKey(c, case_insensitive) == IF case_insensitive THEN lower(c) ELSE c

cols_set(df, case_insensitive) ==
  {ColKey(c, case_insensitive) : c \in Range(cols_clean(df))}

\* {c.lower(): c for c in cols_clean}[k]: the last header that folds to k.
cols_map(df, k) ==
  LET clean == cols_clean(df)
      hits == {i \in DOMAIN clean : lower(clean[i]) = k}
  IN clean[CHOOSE i \in hits : \A j \in hits : j <= i]

cols_only_in(a, b, case_insensitive) ==
  sorted(cols_set(a, case_insensitive) \ cols_set(b, case_insensitive))

common_cols_set(ref_df, comp_df, case_insensitive) ==
  cols_set(ref_df, case_insensitive) \cap cols_set(comp_df, case_insensitive)

\* The common columns of one side in that side's header order.
common_ordered(df, common, case_insensitive) ==
  LET Common(c) == ColKey(c, case_insensitive) \in common
  IN SelectSeq(cols_clean(df), Common)

common_cols_orig(df, common_cols, case_insensitive) ==
  IF case_insensitive
  THEN [i \in DOMAIN common_cols |-> cols_map(df, common_cols[i])]
  ELSE common_cols

\* ---------------------------------------------------------- row data
RowIndex == <<"R", "o", "w", " ", "I", "n", "d", "e", "x">>

pk_clean(primary_key_col, case_insensitive) ==
  IF case_insensitive THEN lower(strip(primary_key_col))
  ELSE strip(primary_key_col)

\* use_pk: a key was given and names a common column.
UsePk(primary_key_col, common_cols, case_insensitive) ==
  /\ primary_key_col # <<>>
  /\ pk_clean(primary_key_col, case_insensitive) \in Range(common_cols)

\* The rows new in the comparison: those whose reference cells are all missing.
new_rows(aligned_ref, aligned_comp) == Rows(aligned_comp, isnull_all(aligned_ref))

\* The rows deleted: those whose comparison cells are all missing.
deleted_rows(aligned_ref, aligned_comp) ==
  Rows(aligned_ref, isnull_all(aligned_comp))

NoEntry == [status |-> "none"]

\* The try block: align, compare, new and deleted rows, the entry if any.
DiffEntry(ref_df_subset, comp_df_subset, pk_used, raises) ==
  IF raises THEN [status |-> "error", message |-> [kind |-> "compare"]]
  ELSE
    LET keys == ref_df_subset.index \cup comp_df_subset.index
        aligned_ref == Reindex(ref_df_subset, keys)
        aligned_comp == Reindex(comp_df_subset, keys)
        diff_df == compare(aligned_ref, aligned_comp)
        new == new_rows(aligned_ref, aligned_comp)
        deleted == deleted_rows(aligned_ref, aligned_comp)
    IN IF diff_df # {} \/ ~empty(new) \/ ~empty(deleted)
       THEN [status |-> "found", modified |-> diff_df, new |-> new,
             deleted |-> deleted, pk_used |-> pk_used]
       ELSE NoEntry

\* A slip: no row comparison when the rows are not keyed.
PositionalEntry_skip(ref_df_subset, comp_df_subset, raises) == NoEntry

\* The try block when use_pk is false: the rows keep their positions as labels.
PositionalEntry(ref_df_subset, comp_df_subset, raises) ==
  DiffEntry(RangeIndexed(ref_df_subset), RangeIndexed(comp_df_subset),
            RowIndex, raises)

DuplicateEntry(pk_orig) ==
  [status |-> "error", message |-> [kind |-> "duplicate", column |-> pk_orig]]

\* Section 3 of the loop body for one sheet pair.  kind is "skip" (no common
\* column), "KeyError" (an indexing raised outside the inner try, which the
\* outer handler turns into a failed invocation) or "entry".
RowData(ref_df, comp_df, case_insensitive, primary_key_col, raises) ==
  LET common_cols == sorted(common_cols_set(ref_df, comp_df, case_insensitive))
      ref_common_cols_orig == common_cols_orig(ref_df, common_cols, case_insensitive)
      comp_common_cols_orig == common_cols_orig(comp_df, common_cols, case_insensitive)
  IN IF common_cols = <<>> THEN [kind |-> "skip", entry |-> NoEntry]
     ELSE IF ~HasCols(ref_df, ref_common_cols_orig)
               \/ ~HasCols(comp_df, comp_common_cols_orig)
     THEN [kind |-> "KeyError", entry |-> NoEntry]
     ELSE
       LET ref_df_subset == Project(ref_df, ref_common_cols_orig)
           comp_df_subset ==
             [Project(comp_df, comp_common_cols_orig)
                EXCEPT !.columns = ref_common_cols_orig]
           use_pk == UsePk(primary_key_col, common_cols, case_insensitive)
           pk_col_clean == pk_clean(primary_key_col, case_insensitive)
           pk_orig == IF case_insensitive THEN cols_map(ref_df, pk_col_clean)
                      ELSE pk_col_clean
       IN IF use_pk
          THEN IF duplicated_any(Column(ref_df, pk_orig))
               THEN [kind |-> "entry", entry |-> DuplicateEntry(pk_orig)]
               ELSE IF ~HasCols(comp_df, <<pk_orig>>)
               THEN [kind |-> "KeyError", entry |-> NoEntry]
               ELSE IF duplicated_any(Column(comp_df, pk_orig))
               THEN [kind |-> "entry", entry |-> DuplicateEntry(pk_orig)]
               ELSE [kind |-> "entry",
                     entry |-> DiffEntry(set_index(ref_df_subset, pk_orig),
                                         set_index(comp_df_subset, pk_orig),
                                         primary_key_col, raises)]
          ELSE [kind |-> "entry",
                entry |-> PositionalEntry(ref_df_subset, comp_df_subset, raises)]

\* ------------------------------------------------------------ inputs
Sheet1 == <<"S", "h", "e", "e", "t", "1">>
Sheet2 == <<"S", "h", "e", "e", "t", "2">>
SheetA == <<"S", "h", "e", "e", "t", "A">>
Data == <<"D", "a", "t", "a">>
hID == <<"I", "D">>
hid == <<"i", "d">>
hA == <<"A">>
hB == <<"B">>
hC == <<"C">>
hX == <<"X">>
hPadA == <<" ", "A">>
hName == <<"N", "a", "m", "e">>
hAmount == <<"A", "m", "o", "u", "n", "t">>
NoKey == <<>>

\* The sequences over S of length at most n, and those without a repeat.
SeqsUpTo(S, n) == UNION {[1..k -> S] : k \in 0..n}
DistinctSeqs(S, n) ==
  {s \in SeqsUpTo(S, n) : \A i, j \in DOMAIN s : i # j => s[i] # s[j]}

Sheet(name, columns, rows) == [name |-> name, df |-> [columns |-> columns, rows |-> rows]]

\* One column, one row: the sheets of the workbooks that differ in sheet names.
PlainSheet(name) == Sheet(name, <<hA>>, <<<<"1">>>>)

SheetNamePool == {Sheet1, Sheet2, SheetA}
HeaderPool == {hID, hid, hA, hPadA, hB}
\* Rows of a sheet with a key column and one data column.
RowPool == {<<k, v>> : k \in {"1", "2"}, v \in {NaN, "1"}}

Arg(ref, comp, ci, pk, pos, raises) ==
  [ref_file |-> ref, comp_file |-> comp, case_insensitive |-> ci,
   primary_key_col |-> pk, compare_by_position |-> pos, raises |-> raises]

\* Workbooks that differ in their sheet names.
SheetInputs ==
  {Arg([i \in DOMAIN r |-> PlainSheet(r[i])], [i \in DOMAIN c |-> PlainSheet(c[i])],
       TRUE, NoKey, pos, FALSE) :
     r \in DistinctSeqs(SheetNamePool, MaxSheets),
     c \in DistinctSeqs(SheetNamePool, MaxSheets),
     pos \in BOOLEAN}

\* One sheet a side, differing in its headers; one row of equal cells.
OneRow(columns) == <<[j \in DOMAIN columns |-> "1"]>>
ColumnInputs ==
  {Arg(<<Sheet(Sheet1, r, OneRow(r))>>, <<Sheet(Sheet1, c, OneRow(c))>>,
       ci, pk, TRUE, FALSE) :
     r \in DistinctSeqs(HeaderPool, MaxCols),
     c \in DistinctSeqs(HeaderPool, MaxCols),
     ci \in BOOLEAN, pk \in {NoKey, hID}}

\* Two sheets a side, compared by name; the first differs in its rows, and
\* in the case of its key header; the second is the same on both sides.
RowConfigs ==
  {<<hID, TRUE, NoKey>>, <<hID, TRUE, hID>>, <<hID, TRUE, hX>>,
   <<hID, FALSE, hID>>, <<hid, TRUE, hID>>, <<hid, FALSE, hID>>}
RowInputs ==
  {Arg(<<Sheet(Sheet1, <<hID, hA>>, r), Sheet(Sheet2, <<hA>>, <<<<"1">>>>)>>,
       <<Sheet(Sheet1, <<cfg[1], hA>>, c), Sheet(Sheet2, <<hA>>, <<<<"1">>>>)>>,
       cfg[2], cfg[3], FALSE, FALSE) :
     r \in SeqsUpTo(RowPool, MaxRows),
     c \in SeqsUpTo(RowPool, MaxRows),
     cfg \in RowConfigs}

\* The worked examples: keyed rows, reordered columns, sheets by position,
\* and a comparison in which pandas raises while aligning or comparing.
ExRef == <<Sheet(Data, <<hID, hName, hAmount>>,
                 <<<<"1", "Alice", "10">>, <<"2", "Bob", "20">>>>)>>
ExComp == <<Sheet(Data, <<hID, hName, hAmount>>,
                  <<<<"1", "Alice", "15">>, <<"3", "Cara", "30">>>>)>>
ExOrderRef == <<Sheet(Data, <<hA, hB, hC>>, <<<<"1", "2", "3">>>>)>>
ExOrderComp == <<Sheet(Data, <<hC, hA, hB>>, <<<<"3", "1", "2">>>>)>>
ExRaiseRef == <<Sheet(Sheet1, <<hA, hB>>, <<<<"1", "1">>>>), PlainSheet(Sheet2)>>
ExRaiseComp == <<Sheet(Sheet1, <<hA>>, <<<<"2">>>>), PlainSheet(Sheet2)>>
ExampleInputs ==
  {Arg(ExRef, ExComp, ci, hID, pos, FALSE) : ci \in BOOLEAN, pos \in BOOLEAN}
  \cup {Arg(ExOrderRef, ExOrderComp, ci, NoKey, pos, FALSE) :
          ci \in BOOLEAN, pos \in BOOLEAN}
  \cup {Arg(<<PlainSheet(Sheet1), PlainSheet(Sheet2)>>, <<PlainSheet(SheetA)>>,
            TRUE, NoKey, TRUE, FALSE)}
  \cup {Arg(ExRaiseRef, ExRaiseComp, ci, NoKey, FALSE, TRUE) : ci \in BOOLEAN}

Inputs == SheetInputs \cup ColumnInputs \cup RowInputs \cup ExampleInputs

\* ------------------------------------------------------- state machine
VARIABLES
  ref_file, comp_file,      \* the two workbooks
  case_insensitive, primary_key_col, compare_by_position,
  pandas_raises,            \* align or compare raises in this invocation
  pc,                       \* "select", "loop", "done"
  sheets_to_process, idx,   \* the pairs and the next one to process
  results,                  \* the report being built
  ret,                      \* "pending", "None" or "results"
  st_error                  \* the message given to st.error, "" if none

args == <<ref_file, comp_file, case_insensitive, primary_key_col,
          compare_by_position, pandas_raises>>
vars == <<ref_file, comp_file, case_insensitive, primary_key_col,
          compare_by_position, pandas_raises, pc, sheets_to_process, idx,
          results, ret, st_error>>

EmptyDict == <<>>

Put(d, k, v) == [x \in DOMAIN d \cup {k} |-> IF x = k THEN v ELSE d[x]]

Init ==
  /\ \E a \in Inputs :
       /\ ref_file = a.ref_file
       /\ comp_file = a.comp_file
       /\ case_insensitive = a.case_insensitive
       /\ primary_key_col = a.primary_key_col
       /\ compare_by_position = a.compare_by_position
       /\ pandas_raises = a.raises
  /\ pc = "select"
  /\ sheets_to_process = <<>>
  /\ idx = 1
  /\ results = [sheet_summary |-> [mode |-> "unset"],
                column_differences |-> EmptyDict,
                column_order_differences |-> EmptyDict,
                data_differences |-> EmptyDict]
  /\ ret = "pending"
  /\ st_error = ""

\* Lines 34-64: the sheets to process and the sheet summary.
SelectSheets ==
  /\ pc = "select"
  /\ LET ref_sheets_list == sheet_names(ref_file)
         comp_sheets_list == sheet_names(comp_file)
     IN IF compare_by_position
           /\ (ref_sheets_list = <<>> \/ comp_sheets_list = <<>>)
        THEN /\ st_error' = "no sheets"
             /\ ret' = "None"
             /\ pc' = "done"
             /\ UNCHANGED <<results, sheets_to_process>>
        ELSE LET summary ==
                   IF compare_by_position
                   THEN PositionSummary(ref_sheets_list, comp_sheets_list)
                   ELSE NameSummary(ref_sheets_list, comp_sheets_list)
             IN /\ results' = [results EXCEPT !.sheet_summary = summary]
                /\ sheets_to_process' = PairsOf(summary)
                /\ pc' = "loop"
                /\ UNCHANGED <<ret, st_error>>
  /\ UNCHANGED <<args, idx>>

\* Lines 66-160: the loop body for the next sheet pair.
ProcessSheet ==
  /\ pc = "loop"
  /\ idx <= Len(sheets_to_process)
  /\ LET sheet_key == sheets_to_process[idx][1]
         ref_df == read_excel(ref_file, sheets_to_process[idx][1])
         comp_df == read_excel(comp_file, sheets_to_process[idx][2])
         cols_only_in_ref == cols_only_in(ref_df, comp_df, case_insensitive)
         cols_only_in_comp == cols_only_in(comp_df, ref_df, case_insensitive)
         common == common_cols_set(ref_df, comp_df, case_insensitive)
         ref_common_ordered == common_ordered(ref_df, common, case_insensitive)
         comp_common_ordered == common_ordered(comp_df, common, case_insensitive)
         rows == RowData(ref_df, comp_df, case_insensitive, primary_key_col,
                         pandas_raises)
     IN /\ results' =
             [results EXCEPT
                !.column_differences =
                   IF cols_only_in_ref # <<>> \/ cols_only_in_comp # <<>>
                   THEN Put(@, sheet_key, [only_in_ref |-> cols_only_in_ref,
                                           only_in_comp |-> cols_only_in_comp])
                   ELSE @,
                !.column_order_differences =
                   IF ref_common_ordered # comp_common_ordered
                   THEN Put(@, sheet_key, [ref_order |-> ref_common_ordered,
                                           comp_order |-> comp_common_ordered])
                   ELSE @,
                !.data_differences =
                   IF rows.entry.status # "none"
                   THEN Put(@, sheet_key, rows.entry)
                   ELSE @]
        /\ IF rows.kind = "KeyError"
           THEN /\ st_error' = "KeyError"
                /\ ret' = "None"
                /\ pc' = "done"
                /\ idx' = idx
           ELSE /\ idx' = idx + 1
                /\ UNCHANGED <<pc, ret, st_error>>
  /\ UNCHANGED <<args, sheets_to_process>>

\* Line 166: every pair is processed, the report is returned.
Return ==
  /\ pc = "loop"
  /\ idx > Len(sheets_to_process)
  /\ ret' = "results"
  /\ pc' = "done"
  /\ UNCHANGED <<args, sheets_to_process, idx, results, st_error>>

Next == SelectSheets \/ ProcessSheet \/ Return

Spec == Init /\ [][Next]_vars

\* ------------------------------------------------------- properties
\* The loop body has run for pair i (to its end, or to the KeyError).
SheetDone(i) == i < idx \/ (i = idx /\ st_error = "KeyError")

SheetKey(i) == sheets_to_process[i][1]
RefDf(i) == read_excel(ref_file, sheets_to_process[i][1])
CompDf(i) == read_excel(comp_file, sheets_to_process[i][2])

Get(d, k, default) == IF k \in DOMAIN d THEN d[k] ELSE default

Ascending(s) == \A i, j \in DOMAIN s : i < j => StrLess(s[i], s[j])

\* A header as it is matched: trimmed, folded when case is ignored.
NormKey(h) == IF case_insensitive THEN lower(strip(h)) ELSE strip(h)
KeysOfHeaders(df) == {NormKey(df.columns[j]) : j \in DOMAIN df.columns}
CommonKeys(i) == KeysOfHeaders(RefDf(i)) \cap KeysOfHeaders(CompDf(i))

\* C6: in name mode only_in_ref is ref minus comp, only_in_comp is comp minus
\* ref and common is the intersection, each sorted; the three are pairwise
\* disjoint and cover both name lists; exactly the common sheets are
\* selected, each paired with the sheet of the same name.
C6_NameModePairing ==
  (pc # "select" /\ ~compare_by_position) =>
    LET ref == Range(sheet_names(ref_file))
        comp == Range(sheet_names(comp_file))
        summary == results.sheet_summary
        only_ref == Range(summary.only_in_ref)
        only_comp == Range(summary.only_in_comp)
        common == Range(summary.common)
    IN /\ summary.mode = "name"
       /\ only_ref = ref \ comp
       /\ only_comp = comp \ ref
       /\ common = ref \cap comp
       /\ Ascending(summary.only_in_ref)
       /\ Ascending(summary.only_in_comp)
       /\ Ascending(summary.common)
       /\ only_ref \cap only_comp = {}
       /\ only_ref \cap common = {}
       /\ only_comp \cap common = {}
       /\ only_ref \cup only_comp \cup common = ref \cup comp
       /\ Len(sheets_to_process) = Len(summary.common)
       /\ \A i \in DOMAIN sheets_to_process :
            sheets_to_process[i] = <<summary.common[i], summary.common[i]>>
       /\ (ret = "results" => idx = Len(summary.common) + 1)

\* Name mode returned with a common sheet and a sheet only on each side.
C6_Witness ==
  /\ ~compare_by_position
  /\ ret = "results"
  /\ sheet_names(ref_file) = <<Sheet2, SheetA, Sheet1>>
  /\ sheet_names(comp_file) = <<SheetA, Sheet1>>
  /\ results.sheet_summary.common = <<Sheet1, SheetA>>
  /\ results.sheet_summary.only_in_ref = <<Sheet2>>
  /\ idx = Len(results.sheet_summary.common) + 1

\* C7: in position mode with a sheet on both sides exactly one pair is
\* selected, the first sheet of each workbook whatever their names, and
\* only_in_ref and only_in_comp are the remaining sheets in on-disk order;
\* with a workbook without sheets the invocation fails and returns no report.
C7_PositionModePairing ==
  (pc # "select" /\ compare_by_position) =>
    LET ref == sheet_names(ref_file)
        comp == sheet_names(comp_file)
        summary == results.sheet_summary
    IN IF ref = <<>> \/ comp = <<>>
       THEN /\ ret = "None"
            /\ pc = "done"
            /\ sheets_to_process = <<>>
            /\ summary.mode = "unset"
       ELSE /\ summary.mode = "position"
            /\ sheets_to_process = <<(<<ref[1], comp[1]>>)>>
            /\ summary.comparison_pair = <<ref[1], comp[1]>>
            /\ summary.only_in_ref = SubSeq(ref, 2, Len(ref))
            /\ summary.only_in_comp = SubSeq(comp, 2, Len(comp))
            /\ idx <= 2
            /\ (ret = "results" => idx = 2)

\* [Sheet1, Sheet2] against [SheetA]: Sheet1 is compared with SheetA.
C7_Witness ==
  /\ compare_by_position
  /\ sheet_names(ref_file) = <<Sheet1, Sheet2>>
  /\ sheet_names(comp_file) = <<SheetA>>
  /\ ret = "results"
  /\ sheets_to_process = <<(<<Sheet1, SheetA>>)>>
  /\ results.sheet_summary.only_in_ref = <<Sheet2>>
  /\ results.sheet_summary.only_in_comp = <<>>

\* The column difference recorded for pair i, empty lists if none is.
ColumnDiff(i) ==
  Get(results.column_differences, SheetKey(i),
      [only_in_ref |-> <<>>, only_in_comp |-> <<>>])

\* C5: with the reference header "ID" and the comparison header "id", under
\* case_insensitive the two are one common column, in neither only_in list;
\* otherwise "ID" is in only_in_ref and "id" in only_in_comp.  Either way
\* only_in_ref, only_in_comp and the common columns are pairwise disjoint.
C5_CaseInsensitivity ==
  \A i \in DOMAIN sheets_to_process : SheetDone(i) =>
    LET ref == Range(cols_clean(RefDf(i)))
        comp == Range(cols_clean(CompDf(i)))
        only_ref == Range(ColumnDiff(i).only_in_ref)
        only_comp == Range(ColumnDiff(i).only_in_comp)
    IN /\ (case_insensitive /\ hID \in ref /\ hid \in comp) =>
            /\ {hID, hid} \cap (only_ref \cup only_comp) = {}
            /\ hid \in CommonKeys(i)
       /\ (~case_insensitive /\ hID \in ref \ comp /\ hid \in comp \ ref) =>
            /\ hID \in only_ref
            /\ hid \in only_comp
            /\ {hID, hid} \cap CommonKeys(i) = {}
       /\ only_ref \cap only_comp = {}
       /\ only_ref \cap CommonKeys(i) = {}
       /\ only_comp \cap CommonKeys(i) = {}

\* Case ignored, "ID" against "id": the pair was processed and the report
\* returned without a column difference for it.
C5_Witness ==
  /\ case_insensitive
  /\ ret = "results"
  /\ \E i \in DOMAIN sheets_to_process :
       /\ RefDf(i).columns = <<hID, hB>>
       /\ CompDf(i).columns = <<hid>>
       /\ ColumnDiff(i).only_in_ref = <<(<<"b">>)>>
       /\ ColumnDiff(i).only_in_comp = <<>>

\* The row entry recorded for pair i, NoEntry if none is.
DataEntry(i) == Get(results.data_differences, SheetKey(i), NoEntry)

PkRequested == primary_key_col # <<>>
\* The requested key, normalized as the headers are, names a common column.
PkIsCommon(i) == PkRequested /\ NormKey(primary_key_col) \in CommonKeys(i)

\* The position in df of the column matched by key k.
ColOfKey(df, k) == CHOOSE j \in DOMAIN df.columns : NormKey(df.columns[j]) = k

\* The labels of the rows of df: the key cells, or the positions from 0.
RowKeys(df, keyed) ==
  IF keyed
  THEN {df.rows[r][ColOfKey(df, NormKey(primary_key_col))] : r \in DOMAIN df.rows}
  ELSE {r - 1 : r \in DOMAIN df.rows}

\* The rows of pair i were aligned and compared: the loop body reached its
\* end with a common column and recorded no error.
Aligned(i) ==
  /\ i < idx
  /\ CommonKeys(i) # {}
  /\ DataEntry(i).status # "error"

Modified(i) ==
  IF DataEntry(i).status = "found" THEN {c[1] : c \in DataEntry(i).modified}
  ELSE {}
New(i) == IF DataEntry(i).status = "found" THEN DataEntry(i).new.index ELSE {}
Deleted(i) ==
  IF DataEntry(i).status = "found" THEN DataEntry(i).deleted.index ELSE {}

\* The cell of the row labelled k in the column matched by key c.
CellOf(df, keyed, k, c) ==
  LET r == IF keyed
           THEN CHOOSE r \in DOMAIN df.rows :
                  df.rows[r][ColOfKey(df, NormKey(primary_key_col))] = k
           ELSE k + 1
  IN df.rows[r][ColOfKey(df, c)]

\* The label k is on both sides with equal cells in every common column.
Unchanged(i, k) ==
  /\ k \in RowKeys(RefDf(i), PkIsCommon(i)) \cap RowKeys(CompDf(i), PkIsCommon(i))
  /\ \A c \in CommonKeys(i) :
       CellOf(RefDf(i), PkIsCommon(i), k, c) = CellOf(CompDf(i), PkIsCommon(i), k, c)

\* C1: comparing a workbook with itself, whatever the settings, no processed
\* sheet has a column difference, a column-order difference, a row
\* difference (modified, new or deleted rows) or an error entry.
C1_SelfComparison ==
  ref_file = comp_file =>
    \A i \in DOMAIN sheets_to_process : SheetDone(i) =>
      /\ SheetKey(i) \notin DOMAIN results.column_differences
      /\ SheetKey(i) \notin DOMAIN results.column_order_differences
      /\ DataEntry(i).status # "found"
      /\ DataEntry(i).status # "error"

\* C2: after the alignment every row label of either sheet is in exactly
\* one of modified, new, deleted, or in none when it is on both sides with
\* equal cells; for the rows (1,Alice,10),(2,Bob,20) against (1,Alice,15),
\* (3,Cara,30) keyed by ID, modified is {1}, deleted {2} and new {3}.
C2_RowKeyPartition ==
  \A i \in DOMAIN sheets_to_process : Aligned(i) =>
    /\ Modified(i) \cap New(i) = {}
    /\ Modified(i) \cap Deleted(i) = {}
    /\ New(i) \cap Deleted(i) = {}
    /\ \A k \in RowKeys(RefDf(i), PkIsCommon(i)) \cup RowKeys(CompDf(i), PkIsCommon(i)) :
         (k \in Modified(i) \cup New(i) \cup Deleted(i)) <=> ~Unchanged(i, k)
    /\ (ref_file = ExRef /\ comp_file = ExComp) =>
         /\ DataEntry(i).status = "found"
         /\ DataEntry(i).modified = {<<"1", hAmount, "10", "15">>}
         /\ Deleted(i) = {"2"}
         /\ New(i) = {"3"}

\* C3: when the requested key is a common column and has a duplicate value
\* in the reference or in the comparison sheet, the sheet's row slot holds an
\* error entry naming the column, never a row diff, and a report is returned.
C3_DuplicateKey ==
  \A i \in DOMAIN sheets_to_process :
    (/\ SheetDone(i)
     /\ PkIsCommon(i)
     /\ \/ duplicated_any([r \in DOMAIN RefDf(i).rows |->
              RefDf(i).rows[r][ColOfKey(RefDf(i), NormKey(primary_key_col))]])
        \/ duplicated_any([r \in DOMAIN CompDf(i).rows |->
              CompDf(i).rows[r][ColOfKey(CompDf(i), NormKey(primary_key_col))]]))
    => /\ DataEntry(i).status = "error"
       /\ DataEntry(i).message.kind = "duplicate"
       /\ NormKey(DataEntry(i).message.column) = NormKey(primary_key_col)
       /\ ret # "None"

\* The row stage of pair i failed: an indexing raised, or an error entry
\* was recorded (a duplicate key, or pandas raised in align or compare).
RowStageFailed(i) ==
  \/ (i = idx /\ st_error = "KeyError")
  \/ (i < idx /\ DataEntry(i).status = "error")

\* C4: when the row stage of one sheet pair fails, a report is still
\* returned, the sheet's slot holds an error entry beside its column and
\* column-order differences, and every later pair is processed.
C4_FailureIsolation ==
  \A i \in DOMAIN sheets_to_process : RowStageFailed(i) =>
    /\ ret # "None"
    /\ DataEntry(i).status = "error"
    /\ (SheetKey(i) \in DOMAIN results.column_differences) <=>
         (KeysOfHeaders(RefDf(i)) # KeysOfHeaders(CompDf(i)))
    /\ (pc = "done" => idx = Len(sheets_to_process) + 1)

\* The common columns of df by their matching keys, in header order.
KeySeq(df, common) ==
  LET keys == [j \in DOMAIN df.columns |-> NormKey(df.columns[j])]
      IsCommon(k) == k \in common
  IN SelectSeq(keys, IsCommon)

\* C9: a column-order entry exists for a sheet pair exactly when the common
\* columns, identified by their matching keys, come in a different order in
\* the two sheets, so headers that differ only in case give no entry under
\* case_insensitive; for [A,B,C] against [C,A,B] there is no column
\* difference and the entry holds the two orders.
C9_ColumnOrder ==
  \A i \in DOMAIN sheets_to_process : SheetDone(i) =>
    /\ (SheetKey(i) \in DOMAIN results.column_order_differences) <=>
         (KeySeq(RefDf(i), CommonKeys(i)) # KeySeq(CompDf(i), CommonKeys(i)))
    /\ (RefDf(i).columns = <<hA, hB, hC>> /\ CompDf(i).columns = <<hC, hA, hB>>) =>
         /\ SheetKey(i) \notin DOMAIN results.column_differences
         /\ SheetKey(i) \in DOMAIN results.column_order_differences
         /\ results.column_order_differences[SheetKey(i)] =
              [ref_order |-> <<hA, hB, hC>>, comp_order |-> <<hC, hA, hB>>]

\* C10: for an aligned sheet pair a row label is in new exactly when it is
\* only in the comparison sheet and in deleted exactly when it is only in
\* the reference sheet; a label on both sides is in neither.
C10_NewDeleted ==
  \A i \in DOMAIN sheets_to_process : Aligned(i) =>
    LET ref_keys == RowKeys(RefDf(i), PkIsCommon(i))
        comp_keys == RowKeys(CompDf(i), PkIsCommon(i))
    IN /\ New(i) = comp_keys \ ref_keys
       /\ Deleted(i) = ref_keys \ comp_keys

\* The two sheets of pair i differ at some row position: a row on one side
\* only, or a common column whose cells differ.
PositionalDifference(i) ==
  \/ Len(RefDf(i).rows) # Len(CompDf(i).rows)
  \/ \E r \in DOMAIN RefDf(i).rows : \E c \in CommonKeys(i) :
       RefDf(i).rows[r][ColOfKey(RefDf(i), c)]
         # CompDf(i).rows[r][ColOfKey(CompDf(i), c)]

\* The requested key is not a common column of pair i, which was processed to
\* its end and has a common column.
PkNotCommon(i) ==
  /\ i < idx
  /\ PkRequested
  /\ NormKey(primary_key_col) \notin CommonKeys(i)
  /\ CommonKeys(i) # {}

\* C8 as stated: when the requested key is not a common column of a sheet
\* pair, no row diff is computed for the sheet.
C8_NoRowDiffWithoutKey ==
  \A i \in DOMAIN sheets_to_process : PkNotCommon(i) =>
    DataEntry(i).status # "found"

\* C8 amended: when the requested key is not a common column of a sheet
\* pair, no duplicate-key error is recorded and the rows are compared by row
\* position: a row diff is labelled 'Row Index' and its labels are row
\* positions, and one is recorded whenever the sheets differ at a position.
C8_PositionalFallback ==
  \A i \in DOMAIN sheets_to_process : PkNotCommon(i) =>
    LET positions == 0..(Len(RefDf(i).rows) - 1) \cup 0..(Len(CompDf(i).rows) - 1)
    IN /\ DataEntry(i).status = "error" =>
            (pandas_raises /\ DataEntry(i).message.kind = "compare")
       /\ DataEntry(i).status = "found" =>
            /\ DataEntry(i).pk_used = RowIndex
            /\ Modified(i) \cup New(i) \cup Deleted(i) \subseteq positions
       /\ (PositionalDifference(i) /\ ~pandas_raises) =>
            DataEntry(i).status = "found"

\* The key "X" names no column and the rows differ: a row diff by position.
C8_Witness ==
  /\ primary_key_col = hX
  /\ ret = "results"
  /\ \E i \in DOMAIN sheets_to_process :
       /\ PkNotCommon(i)
       /\ PositionalDifference(i)
       /\ DataEntry(i).status = "found"
       /\ DataEntry(i).pk_used = RowIndex
       /\ Modified(i) # {}

====
